---- MODULE Spec2Model ----
(***************************************************************************)
(* yt-azure (src/yt_azure.py): download a video with yt-dlp, optionally    *)
(* upload it to Azure Blob Storage, from a CLI, a line-prompt flow or a    *)
(* Gradio form.  Settings and history are JSON files beside the script.    *)
(*                                                                         *)
(* Text that the code takes apart (time strings, the history selector) is  *)
(* a sequence of one-character strings; text that it only passes on (url,  *)
(* container, ...) is a TLA+ string.  A Python value that may be None is   *)
(* a tagged record: None, Str(chars), Num(tenths of a second).  A Python   *)
(* call that may raise returns a record with a `raised` field.            *)
(***************************************************************************)
EXTENDS Integers, Sequences, FiniteSets, TLC

VARIABLES
    histFile,   \* history.json: absent, corrupt, or {entries, position}
    cfgFile,    \* yt-azure.json: absent, corrupt, or a JSON object
    run,        \* what the last front-end run did (front end, inputs, calls, outcome)
    histOp,     \* the History Log call in progress: its argument, the file before, its return
    cfgOp,      \* the Config Store call in progress: its argument, the file before, its return
    appendLog,  \* the entries handed to add_to_history so far, in call order
    timeOp,     \* a time text on its way through parse_time and format_time_for_filename
    appenders   \* the add_to_history invocations under way at once: position, loaded document

vars == <<histFile, cfgFile, run, histOp, cfgOp, appendLog, timeOp, appenders>>

-----------------------------------------------------------------------------
(* Python values *)

None == [tag |-> "None"]
Str(s) == [tag |-> "Str", val |-> s]
Num(n) == [tag |-> "Num", val |-> n]

\* Python truthiness of None / str / float, as used by `if not x`
Truthy(x) ==
    CASE x.tag = "None" -> FALSE
      [] x.tag = "Str" -> x.val # <<>>
      [] x.tag = "Num" -> x.val # 0

Digit == {"0", "1", "2", "3", "4", "5", "6", "7", "8", "9"}

DigitVal(c) ==
    CASE c = "0" -> 0 [] c = "1" -> 1 [] c = "2" -> 2 [] c = "3" -> 3
      [] c = "4" -> 4 [] c = "5" -> 5 [] c = "6" -> 6 [] c = "7" -> 7
      [] c = "8" -> 8 [] c = "9" -> 9

DigitChar(d) ==
    CASE d = 0 -> "0" [] d = 1 -> "1" [] d = 2 -> "2" [] d = 3 -> "3"
      [] d = 4 -> "4" [] d = 5 -> "5" [] d = 6 -> "6" [] d = 7 -> "7"
      [] d = 8 -> "8" [] d = 9 -> "9"

\* str.strip(): leading and trailing blanks removed
RECURSIVE LStrip(_)
LStrip(s) == IF s # <<>> /\ Head(s) = " " THEN LStrip(Tail(s)) ELSE s

RECURSIVE RStrip(_)
RStrip(s) ==
    IF s # <<>> /\ s[Len(s)] = " " THEN RStrip(SubSeq(s, 1, Len(s) - 1)) ELSE s

Strip(s) == RStrip(LStrip(s))

\* str.split(sep): the pieces between separators, empty pieces kept
RECURSIVE SplitFrom(_, _, _)
SplitFrom(s, sep, cur) ==
    IF s = <<>> THEN <<cur>>
    ELSE IF Head(s) = sep THEN <<cur>> \o SplitFrom(Tail(s), sep, <<>>)
    ELSE SplitFrom(Tail(s), sep, Append(cur, Head(s)))

Split(s, sep) == SplitFrom(s, sep, <<>>)

\* value of a run of decimal digits
RECURSIVE DecimalValue(_)
DecimalValue(s) ==
    IF s = <<>> THEN 0
    ELSE 10 * DecimalValue(SubSeq(s, 1, Len(s) - 1)) + DigitVal(s[Len(s)])

AllDigits(s) == s # <<>> /\ \A i \in 1..Len(s) : s[i] \in Digit

\* float(text): blanks around the literal are accepted, then an optional
\* sign, digits and at most one point with a digit on one side of it at
\* least; anything else in this model's alphabet raises ValueError.  The
\* value is in tenths: digits past the first decimal are below the
\* precision of the model's floats
float_str(s) ==
    LET t == Strip(s)
        signed == t # <<>> /\ Head(t) \in {"-", "+"}
        parts == Split(IF signed THEN Tail(t) ELSE t, ".")
        whole == parts[1]
        frac == IF Len(parts) = 2 THEN parts[2] ELSE <<>>
        digits(x) == \A i \in 1..Len(x) : x[i] \in Digit
        tenths == 10 * DecimalValue(whole) + (IF frac = <<>> THEN 0 ELSE DigitVal(frac[1]))
    IN IF Len(parts) <= 2 /\ whole \o frac # <<>> /\ digits(whole) /\ digits(frac)
       THEN [raised |-> FALSE,
             val |-> IF signed /\ Head(t) = "-" THEN 0 - tenths ELSE tenths]
       ELSE [raised |-> TRUE, val |-> 0]

\* int(text): optional sign, digits, blanks around; else ValueError
int_str(s) ==
    LET t == Strip(s)
        neg == t # <<>> /\ Head(t) = "-"
        body == IF neg THEN Tail(t) ELSE t
    IN IF AllDigits(body)
       THEN [raised |-> FALSE, val |-> IF neg THEN 0 - DecimalValue(body) ELSE DecimalValue(body)]
       ELSE [raised |-> TRUE, val |-> 0]

-----------------------------------------------------------------------------
(* Time Codec *)

\* parse_time with the hours weighed like minutes
parse_time_HoursAsMinutes(time_str) ==
    LET seconds(whole, p) ==
            IF ~whole.raised THEN Num(whole.val)
            ELSE IF Len(p) = 2
                 THEN IF p[1].raised \/ p[2].raised THEN None
                      ELSE Num(p[1].val * 60 + p[2].val)
            ELSE IF Len(p) = 3
                 THEN IF p[1].raised \/ p[2].raised \/ p[3].raised THEN None
                      ELSE Num(p[1].val * 60 + p[2].val * 60 + p[3].val)
            ELSE None
        floats(parts) == [i \in DOMAIN parts |-> float_str(parts[i])]
        stripped(s) == seconds(float_str(s), floats(Split(s, ":")))
    IN IF ~Truthy(time_str) THEN None ELSE stripped(Strip(time_str.val))

\* parse_time(time_str): seconds, or None for absent / empty / malformed text
parse_time(time_str) ==
    LET seconds(whole, p) ==
            IF ~whole.raised THEN Num(whole.val)
            ELSE IF Len(p) = 2
                 THEN IF p[1].raised \/ p[2].raised THEN None
                      ELSE Num(p[1].val * 60 + p[2].val)
            ELSE IF Len(p) = 3
                 THEN IF p[1].raised \/ p[2].raised \/ p[3].raised THEN None
                      ELSE Num(p[1].val * 3600 + p[2].val * 60 + p[3].val)
            ELSE None
        floats(parts) == [i \in DOMAIN parts |-> float_str(parts[i])]
        stripped(s) == seconds(float_str(s), floats(Split(s, ":")))
    IN IF ~Truthy(time_str) THEN None ELSE stripped(Strip(time_str.val))

\* decimal digits of a natural number
RECURSIVE Digits(_)
Digits(n) == IF n < 10 THEN <<DigitChar(n)>> ELSE Append(Digits(n \div 10), DigitChar(n % 10))

\* f"{n:02d}": the sign counts towards the width
Pad2(n) ==
    IF n < 0 THEN <<"-">> \o Digits(0 - n)
    ELSE IF n < 10 THEN <<"0", DigitChar(n)>> ELSE Digits(n)

\* int(seconds) at line 89: a float truncates towards zero, a str is parsed
\* and may raise
int_of(x) ==
    IF x.tag = "Num"
    THEN [raised |-> FALSE,
          val |-> IF x.val >= 0 THEN x.val \div 10 ELSE 0 - ((0 - x.val) \div 10)]
    ELSE int_str(x.val)

\* format_time_for_filename with the minutes field of the long form taken
\* from the total, not from what the hours leave
format_time_for_filename_MinutesOfTotal(seconds) ==
    LET fmt(i) ==
            IF i.raised THEN [raised |-> TRUE, val |-> <<>>]
            ELSE IF i.val >= 3600
                 THEN [raised |-> FALSE,
                       val |-> Pad2(i.val \div 3600) \o <<"-">>
                               \o Pad2(i.val \div 60) \o <<"-">> \o Pad2(i.val % 60)]
                 ELSE [raised |-> FALSE,
                       val |-> Pad2(i.val \div 60) \o <<"-">> \o Pad2(i.val % 60)]
    IN IF seconds.tag = "None" THEN [raised |-> FALSE, val |-> <<>>]
       ELSE fmt(int_of(seconds))

\* format_time_for_filename(seconds): MM-SS below an hour, else HH-MM-SS
format_time_for_filename(seconds) ==
    LET fmt(i) ==
            IF i.raised THEN [raised |-> TRUE, val |-> <<>>]
            ELSE IF i.val >= 3600
                 THEN [raised |-> FALSE,
                       val |-> Pad2(i.val \div 3600) \o <<"-">>
                               \o Pad2((i.val % 3600) \div 60) \o <<"-">> \o Pad2(i.val % 60)]
                 ELSE [raised |-> FALSE,
                       val |-> Pad2(i.val \div 60) \o <<"-">> \o Pad2(i.val % 60)]
    IN IF seconds.tag = "None" THEN [raised |-> FALSE, val |-> <<>>]
       ELSE fmt(int_of(seconds))

-----------------------------------------------------------------------------
(* History Log *)

AbsentFile == [kind |-> "absent"]
CorruptFile == [kind |-> "corrupt"]
HistJson(h) == [kind |-> "json", entries |-> h.entries, position |-> h.position]

\* load_history(): the file's document, or the empty history when the file
\* is absent or does not parse
load_history(file) ==
    IF file.kind = "json" THEN [entries |-> file.entries, position |-> file.position]
    ELSE [entries |-> <<>>, position |-> -1]

\* save_history(history): the whole document replaces the file
save_history(history) == HistJson(history)

\* add_to_history without line 152: the position stays as loaded
add_to_history_PositionKept(file, entry) ==
    LET history == load_history(file)
        entries == Append(history.entries, entry)
        updated == [entries |-> entries, position |-> history.position]
    IN [file |-> save_history(updated), ret |-> updated]

\* add_to_history with line 152 counting from one: position := len(entries)
add_to_history_PositionPastEnd(file, entry) ==
    LET history == load_history(file)
        entries == Append(history.entries, entry)
        updated == [entries |-> entries, position |-> Len(entries)]
    IN [file |-> save_history(updated), ret |-> updated]

\* add_to_history(entry): load, append, position := last index, save;
\* the saved file and the returned document
add_to_history(file, entry) ==
    LET history == load_history(file)
        entries == Append(history.entries, entry)
        updated == [entries |-> entries, position |-> Len(entries) - 1]
    IN [file |-> save_history(updated), ret |-> updated]

\* a history entry as process() builds it (lines 557-567); the timestamp, a
\* clock reading no operation looks at, is left out
Entry(url, start, end, video_name, container, blob_folder, format, log) ==
    [url |-> url, start |-> start, end |-> end, video_name |-> video_name,
     container |-> container, blob_folder |-> blob_folder, format |-> format,
     log |-> log]

\* the form fields select_history_item returns when it finds nothing
BlankForm == Entry("", Str(<<>>), Str(<<>>), "", "", "", "", <<>>)

\* list[idx] in Python: a negative index counts from the end, an index
\* outside the list raises IndexError
ListGet(seq, idx) ==
    IF 0 <= idx /\ idx < Len(seq) THEN [raised |-> FALSE, val |-> seq[idx + 1]]
    ELSE IF idx < 0 /\ 0 - idx <= Len(seq)
         THEN [raised |-> FALSE, val |-> seq[Len(seq) + idx + 1]]
    ELSE [raised |-> TRUE, val |-> <<>>]

\* the bounds check with <= for <
InBounds_Inclusive(idx, n) == 0 <= idx /\ idx <= n

\* the bounds check `0 <= idx < len(h["entries"])` (line 488)

InBounds(idx, n) == 0 <= idx /\ idx < n

\* launch_ui.select_history_item(selected_value): the selector is the text
\* "<n>. <url>"; an in-range n-1 becomes the persisted position
select_history_item(file, selected_value) ==
    IF ~Truthy(selected_value) THEN [file |-> file, ret |-> BlankForm, raised |-> FALSE]
    ELSE LET h == load_history(file)
             n == int_str(Split(selected_value.val, ".")[1])
             idx == n.val - 1
             entry == ListGet(h.entries, idx)
         IN IF n.raised THEN [file |-> file, ret |-> BlankForm, raised |-> FALSE]
            ELSE IF InBounds(idx, Len(h.entries))
                 THEN [file |-> save_history([h EXCEPT !.position = idx]),
                       ret |-> IF entry.raised THEN BlankForm ELSE entry.val,
                       raised |-> entry.raised]
                 ELSE [file |-> file, ret |-> BlankForm, raised |-> FALSE]

-----------------------------------------------------------------------------
(* Config Store *)

DefaultFormat == "bestvideo[ext=mp4]+bestaudio[ext=m4a]/best[ext=mp4]/best"

\* default_config (lines 161-171)
default_config ==
    [azure |-> [connection_string |-> "", container_name |-> "", blob_folder |-> ""],
     download |-> [output_path |-> "./downloads", format |-> DefaultFormat]]

CfgJson(doc) == [kind |-> "json", doc |-> doc]

\* plain assignment in place of update: the persisted section replaces the default one
DictUpdate_Replace(d, other) == other

\* dict.update(other): other's keys are set, the rest kept
DictUpdate(d, other) ==
    [k \in DOMAIN d \cup DOMAIN other |-> IF k \in DOMAIN other THEN other[k] ELSE d[k]]

\* dict.get(key) with a missing key read as the empty string (None is as falsy)
DictGet(d, k) == IF k \in DOMAIN d THEN d[k] ELSE ""

\* load_config looping over the persisted keys as well as the built-in ones
load_config_KeepsTopLevel(file) ==
    IF file.kind = "json"
    THEN [key \in DOMAIN default_config \cup DOMAIN file.doc |->
            IF key \notin DOMAIN file.doc THEN default_config[key]
            ELSE IF key \notin DOMAIN default_config THEN file.doc[key]
            ELSE DictUpdate(default_config[key], file.doc[key])]
    ELSE default_config

\* load_config(config_path): the defaults, each built-in section updated
\* with the persisted section of the same name when the file parses
load_config(file) ==
    IF file.kind = "json"
    THEN [key \in DOMAIN default_config |->
            IF key \in DOMAIN file.doc
            THEN DictUpdate(default_config[key], file.doc[key])
            ELSE default_config[key]]
    ELSE default_config

\* save_config(config, config_path): the document replaces the file
save_config(config) == CfgJson(config)

\* prompt_input(prompt, default): the typed text, or the default on an empty line
prompt_input(answer, default) == IF answer # "" THEN answer ELSE default

\* configure(config_path): load, ask for each of the five settings with the
\* loaded value as default, save
configure(file, ans) ==
    LET config == load_config(file)
        azure == [config.azure EXCEPT
                    !.connection_string = prompt_input(ans.connection_string, @),
                    !.container_name = prompt_input(ans.container_name, @),
                    !.blob_folder = prompt_input(ans.blob_folder, @)]
        download == [config.download EXCEPT
                    !.output_path = prompt_input(ans.output_path, @),
                    !.format = prompt_input(ans.format, @)]
    IN save_config([config EXCEPT !.azure = azure, !.download = download])

-----------------------------------------------------------------------------
(* Collaborators and the two steps that call them *)

\* a message line: log() to console and log file, or a line of process()'s output
Msg(text, arg) == [text |-> text, arg |-> arg]

\* what yt-dlp can do with one download request: report a finished file to
\* the progress hook, report none, or raise
DlOutcomes == {"finished", "nofile", "throws"}

\* what the Azure SDK can do with one upload: succeed, or raise
UpOutcomes == {"ok", "throws"}

\* float(start_time) at line 293
float_of(x) == IF x.tag = "Num" THEN [raised |-> FALSE, val |-> x.val] ELSE float_str(x.val)

\* download_video(url, start_time, end_time, config, custom_name) with the
\* collaborator's behaviour dl: the returned path (or None), whether it
\* raised, the requests made of yt-dlp, and the lines logged.  The file name
\* the hook reports is the output template with title and extension filled in.
download_video(url, start_time, end_time, config, custom_name, dl) ==
    LET has_time_range == start_time.tag # "None" /\ end_time.tag # "None"
        base_name == IF custom_name # "" THEN custom_name ELSE "%(title)s"
        started == <<Msg("Downloading", <<url>>)>>
        ydl(output_template, download_ranges) ==
            LET request == [op |-> "download", url |-> url, outtmpl |-> output_template,
                            format |-> config.download.format,
                            download_ranges |-> download_ranges]
            IN CASE dl = "throws" ->
                      [ret |-> None, raised |-> TRUE, calls |-> <<request>>,
                       logs |-> started]
                 [] dl = "nofile" ->
                      [ret |-> None, raised |-> FALSE, calls |-> <<request>>,
                       logs |-> started]
                 [] dl = "finished" ->
                      [ret |-> [tag |-> "Path", val |-> output_template],
                       raised |-> FALSE, calls |-> <<request>>,
                       logs |-> Append(started, Msg("Downloaded", <<output_template>>))]
        ranged(start_fmt, end_fmt, start_f, end_f) ==
            IF start_fmt.raised \/ end_fmt.raised \/ start_f.raised \/ end_f.raised
            THEN [ret |-> None, raised |-> TRUE, calls |-> <<>>, logs |-> <<>>]
            ELSE ydl([dir |-> config.download.output_path, base |-> base_name,
                      range |-> <<start_fmt.val, end_fmt.val>>],
                     <<start_f.val, end_f.val>>)
    IN IF has_time_range
       THEN ranged(format_time_for_filename(start_time),
                   format_time_for_filename(end_time),
                   float_of(start_time), float_of(end_time))
       ELSE ydl([dir |-> config.download.output_path, base |-> base_name,
                 range |-> <<>>], <<>>)

\* the credential check alone
MissingSetting_ContainerUnchecked(azure_config) ==
    IF DictGet(azure_config, "connection_string") = "" THEN "connection string" ELSE ""

\* the two checks that open upload_to_azure (lines 326-332): the setting
\* found empty, credential first, or "" when both are there

MissingSetting(azure_config) ==
    IF DictGet(azure_config, "connection_string") = "" THEN "connection string"
    ELSE IF DictGet(azure_config, "container_name") = "" THEN "container name"
    ELSE ""

\* upload_to_azure(filepath, config) with the collaborator's behaviour up:
\* the blob URL (or None), whether it raised, the uploads asked of the SDK,
\* and the lines logged
upload_to_azure(filepath, config, up) ==
    LET azure_config == config.azure
        blob == [container |-> DictGet(azure_config, "container_name"),
                 blob_folder |-> DictGet(azure_config, "blob_folder"),
                 file |-> filepath.val]
        request == [op |-> "upload",
                    connection_string |-> DictGet(azure_config, "connection_string"),
                    blob |-> blob]
    IN IF MissingSetting(azure_config) # ""
       THEN [ret |-> None, raised |-> FALSE, calls |-> <<>>,
             logs |-> <<Msg("Azure setting not configured", <<MissingSetting(azure_config)>>)>>]
       ELSE IF up = "throws"
       THEN [ret |-> None, raised |-> TRUE, calls |-> <<request>>,
             logs |-> <<Msg("Uploading", <<blob>>)>>]
       ELSE [ret |-> [tag |-> "Url", val |-> blob], raised |-> FALSE, calls |-> <<request>>,
             logs |-> <<Msg("Uploading", <<blob>>), Msg("Upload complete", <<blob>>)>>]

\* the container / blob-folder / format overrides applied to a loaded config
\* (main lines 725-730, process lines 518-523)
ApplyOverrides(config, container, blob_folder, format) ==
    LET azure1 == IF container # ""
                  THEN [config.azure EXCEPT !.container_name = container]
                  ELSE config.azure
        azure2 == IF blob_folder # "" THEN [azure1 EXCEPT !.blob_folder = blob_folder]
                  ELSE azure1
        download == IF format # "" THEN [config.download EXCEPT !.format = format]
                    ELSE config.download
    IN [config EXCEPT !.azure = azure2, !.download = download]

-----------------------------------------------------------------------------
(* Front ends.  Each returns what one run did: the text it held for start  *)
(* and end, the effective config, the collaborator requests in order, the  *)
(* logged lines, the lines shown to the user, whether an exception left    *)
(* the run, which collaborator raised, the path download_video returned,   *)
(* whether upload_to_azure was entered, and the history file afterwards.   *)

Outcome(start_text, end_text, config, calls, logs, output, escaped, threw, filepath, upload_entered, hist) ==
    [start_text |-> start_text, end_text |-> end_text, config |-> config,
     calls |-> calls, logs |-> logs, output |-> output, escaped |-> escaped,
     threw |-> threw, filepath |-> filepath, upload_entered |-> upload_entered,
     hist |-> hist]

\* `if filepath` alone
ShouldUpload_Unasked(filepath, do_upload) == filepath # None

\* `if filepath and do_upload` (process line 545; main line 738 with
\* --no-upload negated; the line prompts ask after `if not filepath: return`)

ShouldUpload(filepath, do_upload) == filepath # None /\ do_upload

\* the first half of the rule alone
RangeInvalid_StartOnly(start, end) == start # None /\ end = None

\* process's both-or-neither rule on the parsed bounds (line 529)

RangeInvalid(start, end) ==
    (start # None /\ end = None) \/ (start = None /\ end # None)

\* which collaborator raised, from the two steps' results
Threw(d, upload_entered, u) ==
    IF d.raised /\ d.calls # <<>> THEN "download"
    ELSE IF upload_entered /\ u.raised THEN "upload"
    ELSE "none"

\* main(), CLI mode with --url (lines 721-739): nothing is guarded and the
\* history is not touched
main(args, cfg, hist, dl, up) ==
    LET result(config, d, upload_entered, u) ==
            Outcome(args.start, args.end, config,
                    IF upload_entered THEN d.calls \o u.calls ELSE d.calls,
                    IF upload_entered THEN d.logs \o u.logs ELSE d.logs,
                    <<>>,
                    d.raised \/ (upload_entered /\ u.raised),
                    Threw(d, upload_entered, u), d.ret, upload_entered, hist)
        upload(config, d) ==
            result(config, d, ~d.raised /\ ShouldUpload(d.ret, args.do_upload),
                   upload_to_azure(d.ret, config, up))
        download(config) ==
            upload(config,
                   download_video(args.url, parse_time(args.start), parse_time(args.end),
                                  config, "", dl))
    IN download(ApplyOverrides(load_config(cfg), args.container, args.blob_folder,
                               args.format))

\* prompt_input for an answer the code goes on to take apart
prompt_text(answer, default) ==
    LET value == Strip(answer.val) IN IF value # <<>> THEN Str(value) ELSE default

\* text_interactive_mode (lines 367-401): start and end go to download_video
\* as typed, unparsed; nothing is guarded and the history is not touched
text_interactive_mode(ans, cfg, hist, dl, up) ==
    LET url == prompt_input(ans.url, "")
        stop(start_time, end_time, line) ==
            Outcome(start_time, end_time, default_config, <<>>, <<>>,
                    <<Msg(line, <<>>)>>, FALSE, "none", None, FALSE, hist)
        result(start_time, end_time, config, d, upload_entered, u) ==
            Outcome(start_time, end_time, config,
                    IF upload_entered THEN d.calls \o u.calls ELSE d.calls,
                    IF upload_entered THEN d.logs \o u.logs ELSE d.logs,
                    IF ~d.raised /\ d.ret = None THEN <<Msg("Download failed", <<>>)>>
                    ELSE <<>>,
                    d.raised \/ (upload_entered /\ u.raised),
                    Threw(d, upload_entered, u), d.ret, upload_entered, hist)
        upload(start_time, end_time, config, d) ==
            result(start_time, end_time, config, d,
                   ~d.raised /\ ShouldUpload(d.ret, ans.do_upload),
                   upload_to_azure(d.ret, config, up))
        download(start_time, end_time, config) ==
            upload(start_time, end_time, config,
                   download_video(url, start_time, end_time, config, "", dl))
        asked(start_time, end_time) ==
            IF ans.use_time_range /\ ~Truthy(end_time)
            THEN stop(start_time, end_time, "End time is required for time range")
            ELSE download(start_time, end_time, load_config(cfg))
    IN IF url = "" THEN stop(None, None, "URL is required")
       ELSE IF ans.use_time_range
       THEN asked(prompt_text(ans.start, Str(<<"0">>)), prompt_text(ans.end, None))
       ELSE asked(None, None)

\* launch_ui.process (lines 511-571): both collaborator calls are guarded;
\* the two early returns leave before the history is written
process(inp, cfg, hist, dl, up) ==
    LET stop(line, config) ==
            Outcome(inp.start, inp.end, config, <<>>, <<>>, <<Msg(line, <<>>)>>,
                    FALSE, "none", None, FALSE, hist)
        record(run_config, d, filepath, upload_entered, u, output) ==
            Outcome(inp.start, inp.end, run_config,
                    IF upload_entered THEN d.calls \o u.calls ELSE d.calls,
                    IF upload_entered THEN d.logs \o u.logs ELSE d.logs,
                    output, FALSE, Threw(d, upload_entered, u), filepath, upload_entered,
                    add_to_history(hist,
                                   Entry(inp.url, inp.start, inp.end, inp.video_name,
                                         inp.container, inp.blob_folder, inp.format,
                                         output)).file)
        uploaded(run_config, d, filepath, upload_entered, u, output1) ==
            record(run_config, d, filepath, upload_entered, u,
                   IF ~upload_entered THEN output1
                   ELSE IF u.raised THEN Append(output1, Msg("Upload error", <<>>))
                   ELSE IF u.ret # None
                        THEN Append(output1, Msg("Uploaded", <<u.ret.val>>))
                   ELSE Append(output1, Msg("Upload failed - check Azure config", <<>>)))
        upload(run_config, d, filepath, output1) ==
            uploaded(run_config, d, filepath, ShouldUpload(filepath, inp.do_upload),
                     upload_to_azure(filepath, run_config, up), output1)
        downloaded(run_config, d) ==
            upload(run_config, d, IF d.raised THEN None ELSE d.ret,
                   IF d.raised THEN <<Msg("Download error", <<>>)>>
                   ELSE IF d.ret = None THEN <<Msg("Download failed", <<>>)>>
                   ELSE <<Msg("Downloaded", <<d.ret.val>>)>>)
        parsed(run_config, start, end) ==
            IF RangeInvalid(start, end)
            THEN stop("Both start and end time required for partial download", run_config)
            ELSE downloaded(run_config,
                            download_video(inp.url, start, end, run_config,
                                           inp.video_name, dl))
    IN IF inp.url = "" THEN stop("URL is required", default_config)
       ELSE parsed(ApplyOverrides(load_config(cfg), inp.container, inp.blob_folder,
                                  inp.format),
                   parse_time(inp.start), parse_time(inp.end))

-----------------------------------------------------------------------------
(* Inputs of the model *)

\* the most entries the form is let to put in the history
MaxHist == 2

T_empty == Str(<<>>)
T_0 == Str(<<"0">>)
T_30 == Str(<<"3", "0">>)
T_90 == Str(<<"9", "0">>)
T_130 == Str(<<"1", ":", "3", "0">>)
T_bad == Str(<<"x">>)

Input(url, start, end, video_name, container, blob_folder, format, do_upload, use_time_range) ==
    [url |-> url, start |-> start, end |-> end, video_name |-> video_name,
     container |-> container, blob_folder |-> blob_folder, format |-> format,
     do_upload |-> do_upload, use_time_range |-> use_time_range]

\* --start / --end as given on the command line: both absent, both good,
\* and the three ways of giving one good bound only
CliRanges ==
    {<<None, None>>, <<T_30, T_130>>, <<T_130, None>>, <<T_130, T_bad>>, <<None, T_90>>}

\* argparse results of a run with --url: no overrides, all three overrides,
\* --no-upload
CliArgs ==
    {Input("u", r[1], r[2], "", "", "", "", TRUE, FALSE) : r \in CliRanges}
    \cup {Input("u", r[1], r[2], "", "c", "f", "q", TRUE, FALSE) : r \in CliRanges}
    \cup {Input("u", r[1], r[2], "", "", "", "", FALSE, FALSE) : r \in CliRanges}

\* answers typed at the line prompts: url, "time range?" (y/n), start, end,
\* "upload?" (y/n)
TextAnswers ==
    {Input("", T_empty, T_empty, "", "", "", "", TRUE, FALSE),
     Input("u", T_empty, T_empty, "", "", "", "", TRUE, FALSE),
     Input("u", T_empty, T_empty, "", "", "", "", FALSE, FALSE),
     Input("u", T_empty, T_90, "", "", "", "", TRUE, TRUE),
     Input("u", T_30, T_90, "", "", "", "", FALSE, TRUE),
     Input("u", T_30, T_empty, "", "", "", "", TRUE, TRUE),
     Input("u", T_0, T_bad, "", "", "", "", TRUE, TRUE),
     Input("u", T_bad, T_90, "", "", "", "", TRUE, TRUE),
     Input("u", T_30, T_130, "", "", "", "", TRUE, TRUE)}

\* the form's fields at submit
UiInputs ==
    {Input("", T_empty, T_empty, "", "", "", "", TRUE, FALSE),
     Input("u", T_empty, T_empty, "", "", "", "", TRUE, FALSE),
     Input("u", T_empty, T_empty, "", "", "", "", FALSE, FALSE),
     Input("u", T_30, T_130, "clip", "c", "f", "q", TRUE, FALSE),
     Input("u", T_130, T_empty, "", "", "", "", TRUE, FALSE),
     Input("u", T_130, T_bad, "", "", "", "", TRUE, FALSE),
     Input("u", T_empty, T_90, "", "", "", "", TRUE, FALSE)}

\* settings files the runs start from: none, credential and container,
\* credential only
RunCfgFiles ==
    {AbsentFile,
     CfgJson([azure |-> [connection_string |-> "s", container_name |-> "k"]]),
     CfgJson([azure |-> [connection_string |-> "s"]])}

NoRun == [fe |-> "none"]
NoOp == [op |-> "none"]

\* no add_to_history invocation under way
NoAppenders == <<>>

-----------------------------------------------------------------------------
(* The runs *)

Init ==
    /\ histFile \in {AbsentFile, CorruptFile}
    /\ cfgFile \in RunCfgFiles
    /\ run = NoRun
    /\ histOp = NoOp
    /\ cfgOp = NoOp
    /\ appendLog = <<>>
    /\ timeOp = NoOp
    /\ appenders = NoAppenders

\* what the two collaborators do when asked; the upload's behaviour is only
\* looked at after a finished download
Behaviours ==
    {b \in DlOutcomes \X UpOutcomes : b[1] = "finished" \/ b[2] = "ok"}

Ran(fe, inp, o) ==
    /\ run' = [fe |-> fe, inp |-> inp, before |-> histFile, out |-> o]
    /\ histFile' = o.hist
    /\ appendLog' = IF o.hist = histFile THEN appendLog
                    ELSE Append(appendLog, o.hist.entries[Len(o.hist.entries)])
    /\ UNCHANGED <<cfgFile, histOp, cfgOp, timeOp, appenders>>

\* yt-azure --url ... [--start ..] [--end ..] [--container ..] [--no-upload]
CliRun ==
    /\ run = NoRun
    /\ \E args \in CliArgs, b \in Behaviours :
          \E o \in {main(args, cfgFile, histFile, b[1], b[2])} : Ran("cli", args, o)

\* yt-azure with no --url and no Gradio installed
TextRun ==
    /\ run = NoRun
    /\ \E ans \in TextAnswers, b \in Behaviours :
          \E o \in {text_interactive_mode(ans, cfgFile, histFile, b[1], b[2])} :
              Ran("text", ans, o)

\* the form's Download button
UiSubmit ==
    /\ run = NoRun
    /\ Len(load_history(histFile).entries) < MaxHist
    /\ \E inp \in UiInputs, b \in Behaviours :
          \E o \in {process(inp, cfgFile, histFile, b[1], b[2])} : Ran("ui", inp, o)

\* the run is over: the process has exited, or the form waits for the next event
Return ==
    /\ run # NoRun
    /\ run' = NoRun
    /\ UNCHANGED <<histFile, cfgFile, histOp, cfgOp, appendLog, timeOp, appenders>>

Next == CliRun \/ TextRun \/ UiSubmit \/ Return

Spec == Init /\ [][Next]_vars

-----------------------------------------------------------------------------
(* Properties of a run *)

\* the entries a history file holds
EntriesOf(file) == IF file.kind = "json" THEN file.entries ELSE <<>>

\* positions in a run's collaborator requests
Downloads(r) == {i \in DOMAIN r.out.calls : r.out.calls[i].op = "download"}
Uploads(r) == {i \in DOMAIN r.out.calls : r.out.calls[i].op = "upload"}

\* exactly one of the two texts the front end holds parses to seconds
OneSided(r) == (parse_time(r.out.start_text) = None) # (parse_time(r.out.end_text) = None)

Contains(seq, x) == \E i \in DOMAIN seq : seq[i] = x

\* C1: every run that asks yt-dlp for a download, from any front end and
\* whatever the collaborators did, leaves the history one entry longer
C1_EveryAttemptAppendsOne ==
    (run # NoRun /\ Downloads(run) # {})
        => Len(EntriesOf(histFile)) = Len(EntriesOf(run.before)) + 1

\* C2: with exactly one of start / end resolving to seconds, no front end
\* asks yt-dlp for anything
C2_OneSidedNeverDownloads ==
    (run # NoRun /\ OneSided(run)) => Downloads(run) = {}

\* C3 as stated: a form submit with a one-sided range asks for no download
\* and appends one entry whose log is empty
C3_InvalidRangeRecorded ==
    (run # NoRun /\ run.fe = "ui" /\ run.inp.url # "" /\ OneSided(run))
        => /\ Downloads(run) = {}
           /\ Len(EntriesOf(histFile)) = Len(EntriesOf(run.before)) + 1
           /\ EntriesOf(histFile)[Len(EntriesOf(histFile))].log = <<>>

\* C3 amended: a form submit with a one-sided range asks neither
\* collaborator for anything, shows the both-bounds-required line and
\* leaves the history file as it was
C3_InvalidRangeNotRecorded ==
    (run # NoRun /\ run.fe = "ui" /\ run.inp.url # "" /\ OneSided(run))
        => /\ run.out.calls = <<>>
           /\ run.out.output =
                <<Msg("Both start and end time required for partial download", <<>>)>>
           /\ ~run.out.escaped
           /\ histFile = run.before

\* a form submit with an end but no start, made when the history already
\* holds an entry
C3_Witness ==
    /\ run # NoRun /\ run.fe = "ui" /\ OneSided(run)
    /\ parse_time(run.out.start_text) = None
    /\ Len(EntriesOf(run.before)) >= 1

\* C4: a run asks for at most one download and at most one upload; an
\* upload comes after the download, only when download_video returned a
\* path and upload was requested; no download follows an upload
C4_UploadOnlyAfterDownload ==
    run # NoRun =>
        /\ Cardinality(Downloads(run)) <= 1
        /\ Cardinality(Uploads(run)) <= 1
        /\ \A i \in Uploads(run) :
              /\ \E j \in Downloads(run) : j < i
              /\ ~\E j \in Downloads(run) : j > i
              /\ run.out.filepath # None
              /\ run.inp.do_upload
        /\ (run.out.filepath = None \/ ~run.inp.do_upload)
              => (Uploads(run) = {} /\ ~run.out.upload_entered)

\* a line-prompt run that asked for the download and then for the upload
C4_Witness ==
    /\ run # NoRun /\ run.fe = "text"
    /\ Downloads(run) = {1} /\ Uploads(run) = {2}

\* C5: when upload_to_azure is entered with an empty credential or an empty
\* container in the effective settings, the Azure SDK is asked for nothing,
\* the configuration error is logged, and the download's success line with
\* the file path is still in the log (and in the form's output)
C5_ConfigErrorSkipsUpload ==
    (/\ run # NoRun /\ run.out.upload_entered
     /\ \/ DictGet(run.out.config.azure, "connection_string") = ""
        \/ DictGet(run.out.config.azure, "container_name") = "")
        => /\ Uploads(run) = {}
           /\ ~run.out.escaped
           /\ \E m \in {"connection string", "container name"} :
                 Contains(run.out.logs, Msg("Azure setting not configured", <<m>>))
           /\ Contains(run.out.logs, Msg("Downloaded", <<run.out.filepath.val>>))
           /\ run.fe = "ui" =>
                 run.out.output =
                    <<Msg("Downloaded", <<run.out.filepath.val>>),
                      Msg("Upload failed - check Azure config", <<>>)>>

\* the form's upload step entered with a credential but no container
C5_Witness ==
    /\ run # NoRun /\ run.fe = "ui" /\ run.out.upload_entered
    /\ DictGet(run.out.config.azure, "connection_string") # ""
    /\ DictGet(run.out.config.azure, "container_name") = ""

\* C6: when a collaborator raises, no exception leaves the run, a message
\* line is shown, the history gets its entry, and the collaborator is not
\* asked again
C6_CollaboratorErrorsCaught ==
    (run # NoRun /\ run.out.threw # "none")
        => /\ ~run.out.escaped
           /\ run.out.output # <<>>
           /\ Len(EntriesOf(histFile)) = Len(EntriesOf(run.before)) + 1
           /\ Cardinality(Downloads(run)) <= 1
           /\ Cardinality(Uploads(run)) <= 1

-----------------------------------------------------------------------------
(* The History Log on its own: add_to_history and the form's history       *)
(* dropdown, called in any order                                           *)

\* the most add_to_history calls in one behaviour
MaxAppends == 3

\* the longest selector text
MaxSelLen == 3

SelAlphabet == {"0", "1", "2", "3", ".", "x", "-"}

\* what the dropdown can hand to select_history_item: nothing, or a text
Selectors ==
    {None} \cup {Str(w) : w \in UNION {[1..k -> SelAlphabet] : k \in 0..MaxSelLen}}

HistEntries ==
    {Entry("u", T_empty, T_empty, "", "", "", "", <<Msg("Download failed", <<>>)>>),
     Entry("v", T_30, T_130, "clip", "c", "f", "q", <<Msg("Download error", <<>>)>>)}

InitHistory ==
    /\ histFile \in {AbsentFile, CorruptFile}
    /\ cfgFile = AbsentFile
    /\ run = NoRun
    /\ histOp = NoOp
    /\ cfgOp = NoOp
    /\ appendLog = <<>>
    /\ timeOp = NoOp
    /\ appenders = NoAppenders

AddToHistory ==
    /\ histOp = NoOp
    /\ Len(appendLog) < MaxAppends
    /\ \E entry \in HistEntries :
          \E r \in {add_to_history(histFile, entry)} :
              /\ histFile' = r.file
              /\ histOp' = [op |-> "append", arg |-> entry, before |-> histFile,
                            ret |-> r.ret, raised |-> FALSE]
              /\ appendLog' = Append(appendLog, entry)
    /\ UNCHANGED <<cfgFile, run, cfgOp, timeOp, appenders>>

SelectHistoryItem ==
    /\ histOp = NoOp
    /\ \E selected_value \in Selectors :
          \E r \in {select_history_item(histFile, selected_value)} :
              /\ histFile' = r.file
              /\ histOp' = [op |-> "select", arg |-> selected_value, before |-> histFile,
                            ret |-> r.ret, raised |-> r.raised]
    /\ UNCHANGED <<cfgFile, run, cfgOp, appendLog, timeOp, appenders>>

\* the call has returned
HistoryReturn ==
    /\ histOp # NoOp
    /\ histOp' = NoOp
    /\ UNCHANGED <<histFile, cfgFile, run, cfgOp, appendLog, timeOp, appenders>>

NextHistory == AddToHistory \/ SelectHistoryItem \/ HistoryReturn

SpecHistory == InitHistory /\ [][NextHistory]_vars

\* C7: add_to_history(entry) on a history holding entries E persists and
\* returns E followed by entry with position Len(E); from an absent (or
\* unreadable) file the persisted entries are the appended ones in call
\* order and the position after the n-th append is n-1
C7_AppendKeepsOrder ==
    /\ histOp.op = "append" =>
          LET E == EntriesOf(histOp.before)
              after == [entries |-> E \o <<histOp.arg>>, position |-> Len(E)]
          IN /\ histFile = [kind |-> "json", entries |-> after.entries,
                            position |-> after.position]
             /\ histOp.ret = after
             /\ histFile.position = Len(appendLog) - 1
    /\ EntriesOf(histFile) = appendLog

\* the third append in a row after the position had been moved back to 0
C7_Witness ==
    /\ histOp.op = "append"
    /\ Len(EntriesOf(histOp.before)) = 2
    /\ histOp.before.position = 0
    /\ histFile.position = 2

\* the selector names entry i (counted from 1): the text before its first
\* "." is a decimal numeral of value i
Names(selected_value, i) ==
    /\ Truthy(selected_value)
    /\ LET prefix == Split(selected_value.val, ".")[1]
       IN AllDigits(prefix) /\ DecimalValue(prefix) = i

\* C8: a selector that names no entry returns the blank form and leaves
\* the history file as it was; one that names entry i persists position
\* i-1, returns that entry and leaves the entries as they were
C8_SelectFrame ==
    histOp.op = "select" =>
        LET E == EntriesOf(histOp.before)
            named == {i \in 1..Len(E) : Names(histOp.arg, i)}
        IN /\ ~histOp.raised
           /\ named = {} => (histFile = histOp.before /\ histOp.ret = BlankForm)
           /\ \A i \in named :
                 /\ histFile = [kind |-> "json", entries |-> E, position |-> i - 1]
                 /\ histOp.ret = E[i]

\* entry 1 of three selected while the position was on the last one
C8_Witness ==
    /\ histOp.op = "select"
    /\ Len(EntriesOf(histOp.before)) = 3
    /\ histOp.before.position = 2
    /\ histFile.position = 0
    /\ histOp.ret = histFile.entries[1]

\* C13: whatever appends and selections (of an entry, of none, of text that
\* is no number) have been made since the history file was absent, the
\* persisted history has position -1 when it has no entries and a position
\* from 0 to len(entries)-1 otherwise
C13_PositionInRange ==
    LET h == load_history(histFile)
    IN IF h.entries = <<>> THEN h.position = -1
       ELSE 0 <= h.position /\ h.position < Len(h.entries)

\* a selection has moved the position of a two-entry history from the last
\* entry back to the first
C13_Witness ==
    /\ histOp.op = "select"
    /\ histOp.before.kind = "json"
    /\ Len(histOp.before.entries) = 2
    /\ histOp.before.position = 1
    /\ histFile.position = 0

-----------------------------------------------------------------------------
(* The Config Store on its own: load_config, save_config and configure,    *)
(* called in any order on one settings file                                *)

\* JSON objects over the given keys: any subset of them, each with a value
Objects(keys, values) == UNION {[K -> values] : K \in SUBSET keys}

\* settings documents handed to save_config: each built-in section there or
\* not, with some of its keys; a key no version of the program knows inside
\* the storage section; a top-level key no version knows
SettingsDocs ==
    LET azure == Objects({"connection_string", "container_name", "blob_folder", "junk"},
                         {"x"})
        download == Objects({"output_path", "format"}, {"", "x"})
        extra == {[other |-> "x"]}
        with(key, vals) == {[k \in {} |-> 0]} \cup {[k \in {key} |-> v] : v \in vals}
    IN {a @@ d @@ e :
          a \in with("azure", azure), d \in with("download", download),
          e \in with("extra", extra)}

\* what is typed at configure's five prompts: nothing, or a new value
ConfigAnswers ==
    [connection_string : {"", "n"}, container_name : {"", "n"}, blob_folder : {"", "n"},
     output_path : {"", "n"}, format : {"", "n"}]

InitConfig ==
    /\ histFile = AbsentFile
    /\ cfgFile \in {AbsentFile, CorruptFile}
    /\ run = NoRun
    /\ histOp = NoOp
    /\ cfgOp = NoOp
    /\ appendLog = <<>>
    /\ timeOp = NoOp
    /\ appenders = NoAppenders

LoadConfig ==
    /\ cfgOp = NoOp
    /\ cfgOp' = [op |-> "load", before |-> cfgFile, ret |-> load_config(cfgFile)]
    /\ UNCHANGED <<histFile, cfgFile, run, histOp, appendLog, timeOp, appenders>>

SaveConfig ==
    /\ cfgOp = NoOp
    /\ \E config \in SettingsDocs :
          /\ cfgFile' = save_config(config)
          /\ cfgOp' = [op |-> "save", before |-> cfgFile, ret |-> config]
    /\ UNCHANGED <<histFile, run, histOp, appendLog, timeOp, appenders>>

\* yt-azure --config
Configure ==
    /\ cfgOp = NoOp
    /\ \E ans \in ConfigAnswers :
          \E f \in {configure(cfgFile, ans)} :
              /\ cfgFile' = f
              /\ cfgOp' = [op |-> "configure", before |-> cfgFile, ret |-> ans]
    /\ UNCHANGED <<histFile, run, histOp, appendLog, timeOp, appenders>>

\* the call has returned
ConfigReturn ==
    /\ cfgOp # NoOp
    /\ cfgOp' = NoOp
    /\ UNCHANGED <<histFile, cfgFile, run, histOp, appendLog, timeOp, appenders>>

NextConfig == LoadConfig \/ SaveConfig \/ Configure \/ ConfigReturn

SpecConfig == InitConfig /\ [][NextConfig]_vars

BuiltinSections == {"azure", "download"}

BuiltinKeys(section) ==
    IF section = "azure" THEN {"connection_string", "container_name", "blob_folder"}
    ELSE {"output_path", "format"}

\* the persisted value of a key when the document has it, else the default
Merged(doc, section, key) ==
    IF section \in DOMAIN doc /\ key \in DOMAIN doc[section] THEN doc[section][key]
    ELSE default_config[section][key]

\* C9 as stated: loading a parsable file yields exactly the built-in
\* sections with exactly the built-in keys, persisted value or default
C9_OnlyBuiltinKeys ==
    (cfgOp.op = "load" /\ cfgOp.before.kind = "json") =>
        /\ DOMAIN cfgOp.ret = BuiltinSections
        /\ \A s \in BuiltinSections :
              /\ DOMAIN cfgOp.ret[s] = BuiltinKeys(s)
              /\ \A k \in BuiltinKeys(s) : cfgOp.ret[s][k] = Merged(cfgOp.before.doc, s, k)

\* C9 amended: loading a parsable settings document yields exactly the
\* built-in sections; each holds every built-in key (persisted value or
\* default) and also every other key the persisted section of that name
\* has, with its persisted value; persisted top-level keys that are not
\* built-in sections do not appear
C9_LoadMerges ==
    (cfgOp.op = "load" /\ cfgOp.before.kind = "json") =>
        LET doc == cfgOp.before.doc
        IN /\ DOMAIN cfgOp.ret = BuiltinSections
           /\ \A s \in BuiltinSections :
                 /\ DOMAIN cfgOp.ret[s] =
                       BuiltinKeys(s) \cup (IF s \in DOMAIN doc THEN DOMAIN doc[s] ELSE {})
                 /\ \A k \in DOMAIN cfgOp.ret[s] : cfgOp.ret[s][k] = Merged(doc, s, k)

\* a load of a file with an unknown top-level key, an unknown key in the
\* storage section, and built-in keys missing
C9_Witness ==
    /\ cfgOp.op = "load" /\ cfgOp.before.kind = "json"
    /\ "extra" \in DOMAIN cfgOp.before.doc
    /\ "azure" \in DOMAIN cfgOp.before.doc
    /\ DOMAIN cfgOp.before.doc["azure"] = {"container_name", "junk"}
    /\ "download" \notin DOMAIN cfgOp.before.doc

\* C10: load with no file returns the built-in defaults; load of a file
\* written by save_config(D) returns, for every built-in key, D's value
\* when D has the key and the default otherwise
C10_SaveThenLoad ==
    cfgOp.op = "load" =>
        /\ cfgOp.before.kind = "absent" => cfgOp.ret = default_config
        /\ cfgOp.before.kind = "json" =>
              \A s \in BuiltinSections : \A k \in BuiltinKeys(s) :
                  /\ k \in DOMAIN cfgOp.ret[s]
                  /\ cfgOp.ret[s][k] = Merged(cfgOp.before.doc, s, k)

\* a load after a save of a document that sets the output path alone
C10_Witness ==
    /\ cfgOp.op = "load" /\ cfgOp.before.kind = "json"
    /\ cfgOp.before.doc = [download |-> [output_path |-> "x"]]
    /\ cfgOp.ret.download.format = DefaultFormat

-----------------------------------------------------------------------------
(* The Time Codec on its own: a time text is parsed, the seconds are       *)
(* formatted for the file name, and that name is parsed again              *)

MaxHours == 1

Hours == 0..MaxHours
Minutes == {0, 1, 59, 61}

\* seconds with one decimal, in tenths: 0, 0.5, 1.5, 59.9, 60, 90.5
SecondTenths == {0, 5, 15, 599, 600, 905}

\* the text of a non-negative number of tenths, as a user types it
Literal(tenths) ==
    Digits(tenths \div 10)
        \o (IF tenths % 10 = 0 THEN <<>> ELSE <<".", DigitChar(tenths % 10)>>)

\* a whole number as typed, with and without a leading zero
Typed(n) == {Digits(n), Pad2(n)}

\* a time text with what it was built from: hours and minutes whole,
\* seconds in tenths.  (A fraction in the hours or minutes would make the
\* float sum inexact; those texts are left out.)
Case(text, kind, h, m, s) == [text |-> text, kind |-> kind, h |-> h, m |-> m, s |-> s]

TimeCases ==
    {Case(Str(Literal(36000 * h + s)), "number", h, 0, s) : h \in Hours, s \in SecondTenths}
    \cup {Case(Str(<<" ">> \o Literal(s) \o <<" ">>), "number", 0, 0, s) : s \in SecondTenths}
    \cup {Case(Str(<<"-">> \o Literal(s)), "negative", 0, 0, s) : s \in SecondTenths \ {0}}
    \cup UNION {{Case(Str(w \o <<":">> \o Literal(s)), "ms", 0, m, s) : w \in Typed(m)} :
                    m \in Minutes, s \in SecondTenths}
    \cup UNION {{Case(Str(Digits(h) \o <<":">> \o w \o <<":">> \o Literal(s)), "hms", h, m, s) :
                        w \in Typed(m)} :
                    h \in Hours, m \in Minutes, s \in SecondTenths}
    \cup {Case(None, "absent", 0, 0, 0), Case(Str(<<>>), "absent", 0, 0, 0)}
    \cup UNION {{Case(Str(<<"x", ":">> \o Literal(s)), "segment", 0, m, s),
                 Case(Str(Digits(m) \o <<":", "x">>), "segment", 0, m, s),
                 Case(Str(Digits(m) \o <<":">>), "segment", 0, m, s),
                 Case(Str(Digits(m) \o <<":", "x", ":">> \o Literal(s)), "segment", 0, m, s),
                 Case(Str(Digits(m) \o <<"-">> \o Literal(s)), "segment", 0, m, s),
                 Case(Str(Digits(m) \o <<":", ":">> \o Literal(s)), "segment", 0, m, s)} :
                    m \in Minutes, s \in SecondTenths}
    \cup {Case(Str(<<"x">>), "segment", 0, 0, 0), Case(Str(<<" ">>), "segment", 0, 0, 0),
          Case(Str(<<".">>), "segment", 0, 0, 0)}
    \cup UNION {{Case(Str(<<"1", ":">> \o Digits(m) \o <<":", "2", ":">> \o Literal(s)),
                      "count", 1, m, s),
                 Case(Str(<<"0", ":", "1", ":">> \o Digits(m) \o <<":", "2", ":">> \o Literal(s)),
                      "count", 1, m, s)} :
                    m \in Minutes, s \in SecondTenths}

InitTime ==
    /\ histFile = AbsentFile
    /\ cfgFile = AbsentFile
    /\ run = NoRun
    /\ histOp = NoOp
    /\ cfgOp = NoOp
    /\ appendLog = <<>>
    /\ timeOp \in {[op |-> "input", case |-> c] : c \in TimeCases}
    /\ appenders = NoAppenders

\* parse_time on the text
ParseTime ==
    /\ timeOp.op = "input"
    /\ timeOp' = [op |-> "parsed", case |-> timeOp.case,
                  seconds |-> parse_time(timeOp.case.text)]
    /\ UNCHANGED <<histFile, cfgFile, run, histOp, cfgOp, appendLog, appenders>>

\* format_time_for_filename on the seconds
FormatTime ==
    /\ timeOp.op = "parsed"
    /\ timeOp' = [op |-> "formatted", case |-> timeOp.case, seconds |-> timeOp.seconds,
                  name |-> format_time_for_filename(timeOp.seconds)]
    /\ UNCHANGED <<histFile, cfgFile, run, histOp, cfgOp, appendLog, appenders>>

\* parse_time on the file-name form
ParseName ==
    /\ timeOp.op = "formatted"
    /\ ~timeOp.name.raised
    /\ timeOp' = [op |-> "reparsed", case |-> timeOp.case, seconds |-> timeOp.seconds,
                  name |-> timeOp.name, again |-> parse_time(Str(timeOp.name.val))]
    /\ UNCHANGED <<histFile, cfgFile, run, histOp, cfgOp, appendLog, appenders>>

NextTime == ParseTime \/ FormatTime \/ ParseName

SpecTime == InitTime /\ [][NextTime]_vars

\* the texts C11 calls valid: a number, MM:SS, HH:MM:SS, nothing negative
ValidTime(c) == c.kind \in {"number", "ms", "hms"}

\* C11 as stated: for a valid time text s, parse(format_for_filename(parse(s)))
\* is the whole seconds of parse(s)
C11_RoundTrip ==
    (timeOp.op = "reparsed" /\ ValidTime(timeOp.case)) =>
        timeOp.again = Num(10 * (timeOp.seconds.val \div 10))

\* the file-name form with each "-" read as ":"
Colons(name) == [i \in DOMAIN name |-> IF name[i] = "-" THEN ":" ELSE name[i]]

\* C11 amended: for a valid, non-negative time text s, the file-name form
\* of parse(s) does not parse (its fields are joined by "-"); with each
\* "-" read as ":" it parses to the whole seconds of parse(s)
C11_FieldsRoundTrip ==
    (timeOp.op = "reparsed" /\ ValidTime(timeOp.case)) =>
        /\ timeOp.again = None
        /\ parse_time(Str(Colons(timeOp.name.val)))
              = Num(10 * (timeOp.seconds.val \div 10))

\* 1:01:01.5 has gone through parse, format and parse
C11_Witness ==
    /\ timeOp.op = "reparsed"
    /\ timeOp.case.kind = "hms"
    /\ timeOp.seconds = Num(36615)
    /\ timeOp.name.val = <<"0", "1", "-", "0", "1", "-", "0", "1">>

\* C12: a number n parses to n seconds, m:s to 60m+s, h:m:s to 3600h+60m+s;
\* absent or empty text, a text with a segment that is no number, and a text
\* of more than three segments parse to None
C12_ParseTime ==
    timeOp.op \in {"parsed", "formatted", "reparsed"} =>
        LET c == timeOp.case
        IN CASE c.kind = "number" -> timeOp.seconds = Num(36000 * c.h + c.s)
             [] c.kind = "negative" -> timeOp.seconds = Num(0 - c.s)
             [] c.kind = "ms" -> timeOp.seconds = Num(600 * c.m + c.s)
             [] c.kind = "hms" -> timeOp.seconds = Num(36000 * c.h + 600 * c.m + c.s)
             [] OTHER -> timeOp.seconds = None

\* "1:59:59.9" has been parsed
C12_Witness ==
    /\ timeOp.op = "parsed"
    /\ timeOp.case.text = Str(<<"1", ":", "5", "9", ":", "5", "9", ".", "9">>)
    /\ timeOp.seconds = Num(71999)

-----------------------------------------------------------------------------
(* add_to_history called twice at once (two form submissions, or two       *)
(* copies of the program beside one history.json).  Nothing locks the      *)
(* file, so the steps of the two calls interleave: the load (lines         *)
(* 150-152), the open for writing, which empties the file (line 144), and  *)
(* the dump with the close, which puts the text there (line 145).          *)

Appenders == {"a", "b"}

\* the most entries persisted before the two calls
MaxPrior == 1

PriorEntry == Entry("p", T_empty, T_empty, "", "", "", "", <<>>)

\* history.json before the calls: absent, or holding earlier entries
PriorFiles ==
    {AbsentFile}
    \cup {HistJson([entries |-> [i \in 1..k |-> PriorEntry], position |-> k - 1]) :
            k \in 1..MaxPrior}

\* an emptied or half-written history.json: json.load raises JSONDecodeError
TruncatedFile == CorruptFile

InitRace ==
    /\ histFile \in PriorFiles
    /\ cfgFile = AbsentFile
    /\ run = NoRun
    /\ histOp = NoOp
    /\ cfgOp = NoOp
    /\ appendLog = <<>>
    /\ timeOp = NoOp
    /\ appenders \in [Appenders -> {[pc |-> "called", entry |-> e, before |-> histFile,
                                     history |-> load_history(AbsentFile),
                                     overlaid |-> FALSE, turn |-> 0] :
                                        e \in HistEntries}]

\* lines 150-152: load, append, set the position
AppendLoad(p) ==
    /\ appenders[p].pc = "called"
    /\ appenders' = [appenders EXCEPT
                        ![p].pc = "loaded",
                        ![p].history = add_to_history(histFile, appenders[p].entry).ret]
    /\ UNCHANGED <<histFile, cfgFile, run, histOp, cfgOp, appendLog, timeOp>>

\* line 144, open(history_path, "w"): the file is emptied, also of what a
\* call that has it open already may have to write over later
AppendOpen(p) ==
    /\ appenders[p].pc = "loaded"
    /\ histFile' = TruncatedFile
    /\ appenders' = [q \in Appenders |->
                        IF q = p THEN [appenders[q] EXCEPT !.pc = "opened", !.overlaid = FALSE]
                        ELSE [appenders[q] EXCEPT !.overlaid = FALSE]]
    /\ UNCHANGED <<cfgFile, run, histOp, cfgOp, appendLog, timeOp>>

\* line 145, json.dump and the close: the text goes to the start of the
\* file.  Over a different text that another call wrote since this one
\* opened the file, it replaces it when it is as long, and leaves the
\* other's tail behind its own when it is shorter, which no longer parses;
\* which of the two depends on the lengths of the entries' fields
AppendWrite(p) ==
    /\ appenders[p].pc = "opened"
    /\ \E written \in {save_history(appenders[p].history)}
                         \cup (IF /\ appenders[p].overlaid
                                  /\ histFile # save_history(appenders[p].history)
                               THEN {TruncatedFile} ELSE {}) :
          histFile' = written
    /\ appenders' = [q \in Appenders |->
                        IF q = p
                        THEN [appenders[q] EXCEPT
                                !.pc = "done",
                                !.turn = 1 + Cardinality({r \in Appenders :
                                                            appenders[r].pc = "done"})]
                        ELSE IF appenders[q].pc = "opened"
                             THEN [appenders[q] EXCEPT !.overlaid = TRUE]
                        ELSE appenders[q]]
    /\ UNCHANGED <<cfgFile, run, histOp, cfgOp, appendLog, timeOp>>

NextRace == \E p \in Appenders : AppendLoad(p) \/ AppendOpen(p) \/ AppendWrite(p)

SpecRace == InitRace /\ [][NextRace]_vars

\* C14: when both calls have finished, the persisted history holds every
\* entry that was persisted before them and the entry of the call that
\* saved last
C14_LastWriterWins ==
    (\A p \in Appenders : appenders[p].pc = "done") =>
        LET entries == load_history(histFile).entries
        IN /\ \A p \in Appenders :
                 \A i \in 1..Len(EntriesOf(appenders[p].before)) :
                    \E j \in 1..Len(entries) : entries[j] = EntriesOf(appenders[p].before)[i]
           /\ \A p \in Appenders :
                 appenders[p].turn = Cardinality(Appenders) =>
                    \E j \in 1..Len(entries) : entries[j] = appenders[p].entry

====
